---- MODULE Spec2Model ----
(***************************************************************************)
(* Model of the ONVIF tools: the capability orchestrator (onvif_info.py)   *)
(* and the WS-Discovery engine (onvif_discover.py).                        *)
(*                                                                         *)
(* Python dicts are functions from string keys to values, Python lists are *)
(* sequences.  The remote device, the transport and the file system are    *)
(* the environment: every reply, error and write result is drawn with \E.  *)
(***************************************************************************)
EXTENDS Integers, Sequences, FiniteSets, TLC

VARIABLES
    pc,           \* position of main() of onvif_info.py
    summary,      \* the report: [services, errors] (+ stream_uris, device_info_summary)
    context,      \* run context: [profiles, video_source_tokens]
    svcIdx,       \* index in SERVICE_METHODS of the service being walked
    mIdx,         \* index of the method being tried in that service
    svc_result,   \* the dict being filled for the current service
    tIdx,         \* index in context.profiles during the stream-address pass
    stream_map,   \* the dict being filled by the stream-address pass
    file,         \* content of OUTPUT_JSON on disk, NoFile before any write
    writes,       \* log: the reports the run tried to write to OUTPUT_JSON
    exitCode,     \* process exit status, -1 while running
    sessions,     \* log: service sessions the run tried to create
    calls,        \* log: remote method invocations the run made
    faults,       \* number of errors the environment has injected
    dpc,          \* position of discover_onvif_devices() of onvif_discover.py
    sock,         \* the UDP socket: "none", "open" or "closed"
    results,      \* the records accumulated by the receive loop
    received,     \* log: the datagrams recvfrom returned, in arrival order
    events,       \* number of datagrams and receive errors so far
    now,          \* the clock, in seconds
    loopStart,    \* the clock when the receive loop was entered
    sent,         \* the MessageID of every probe sent by this process
    invocations,  \* calls of discover_onvif_devices begun in this process
    reported,     \* the devices print_results was given, None before
    ppc,          \* position of one application of the response parser
    pin,          \* the decoded datagram given to the parser
    pout          \* what the parser, or extract_scope_field, returned

infoVars == <<pc, summary, context, svcIdx, mIdx, svc_result, tIdx, stream_map,
              file, writes, exitCode, sessions, calls, faults>>
discVars == <<dpc, sock, results, received, events, now, loopStart,
             sent, invocations, reported>>
parseVars == <<ppc, pin, pout>>
vars == <<infoVars, discVars, parseVars>>

-----------------------------------------------------------------------------
(* Bounds of the environment *)

\* at most this many errors (connection, session, call) in one run
MaxFaults == 2

\* messages of the exceptions the transport or the device raise
Errors == {"timed out"}

NoTok == ""
ProfileTokens == {"P1", "P2"}

NoFile == [none |-> TRUE]

-----------------------------------------------------------------------------
(* The catalog *)

Entry(m, a) == [method |-> m, args |-> a]

\* the catalog with the imaging block written before the media block
ServiceOrderImagingFirst == <<"device", "imaging", "media", "ptz", "events">>

\* lines 26-56: the order of the keys of SERVICE_METHODS
ServiceOrder == <<"device", "media", "imaging", "ptz", "events">>

SERVICE_METHODS ==
    [device |-> << Entry("GetServices", "IncludeCapability=True"),
                   Entry("GetDeviceInformation", ""),
                   Entry("GetSystemDateAndTime", ""),
                   Entry("GetCapabilities", "Category=All"),
                   Entry("GetScopes", ""),
                   Entry("GetHostname", ""),
                   Entry("GetNetworkInterfaces", ""),
                   Entry("GetNetworkProtocols", ""),
                   Entry("GetNTP", ""),
                   Entry("GetUsers", "") >>,
     media |-> << Entry("GetProfiles", ""),
                  Entry("GetServiceCapabilities", "") >>,
     imaging |-> << Entry("GetServiceCapabilities", ""),
                    Entry("GetImagingSettings", "") >>,
     ptz |-> << Entry("GetServiceCapabilities", ""),
                Entry("GetNodes", "") >>,
     events |-> << Entry("GetServiceCapabilities", "") >>]

\* keys of service_creators
service_creators == {"device", "media", "imaging", "ptz", "events", "analytics"}

\* cam.devicemgmt is an attribute of the connected camera, the other
\* creators open a new session and may raise
CreatorMayRaise(svc_name) == svc_name # "device"

-----------------------------------------------------------------------------
(* Values *)

\* str(e): a text is a sequence of parts
Str(e) == <<e>>
\* traceback.format_exc() while handling e
FormatExc(e) == <<"Traceback (most recent call last)", e>>

EmptyDict == <<>>
DictSet(d, k, v) == (k :> v) @@ d
DictGet(d, k, default) == IF k \in DOMAIN d THEN d[k] ELSE default

\* a media profile as the device returns it: its token and the source token
\* of its VideoSourceConfiguration (NoTok: the field is missing or empty)
Profile(t, v) == [token |-> t, vs |-> v]

Payload(shape, items) == [shape |-> shape, items |-> items]

\* serialized replies of GetProfiles: a list of profiles ("list"), a single
\* profile object ("single"), a dict holding a list or a single profile
\* under "Profile" ("wrapList", "wrapSingle"), or None ("other")
ProfilePayloads ==
    { Payload("list", <<>>),
      Payload("list", <<Profile("P1", "V1"), Profile("P2", "V1")>>),
      Payload("list", <<Profile("P1", NoTok), Profile("P1", NoTok)>>),
      Payload("list", <<Profile(NoTok, "V1"), Profile("P2", NoTok)>>),
      Payload("single", <<Profile("P1", "V1")>>),
      Payload("wrapList", <<Profile("P2", NoTok), Profile("P1", "V1")>>),
      Payload("wrapSingle", <<Profile("P1", "V1")>>),
      Payload("other", <<>>) }

\* serialized reply of any other method
PlainPayload == [shape |-> "object", items |-> <<>>]

Payloads(method) ==
    IF method = "GetProfiles" THEN ProfilePayloads ELSE {PlainPayload}

\* what one attempt to invoke a method runs into: the proxy has no such
\* method, the call returns, or the transport / the device raises
Replies(method) ==
    [kind : {"ok"}, payload : Payloads(method)]
    \cup [kind : {"raise"}, err : Errors]
    \cup [kind : {"notfound"}, err : {"AttributeError"}]

IsFault(reply) == reply.kind # "ok"
Allowed(reply) == IsFault(reply) => faults < MaxFaults
Charge(reply) == IF IsFault(reply) THEN faults + 1 ELSE faults

-----------------------------------------------------------------------------
(* safe_call *)

\* safe_call with line 69 left out: a failure without its trace
safe_call_no_trace(method_name, reply) ==
    CASE reply.kind = "notfound" ->
            ("error" :> <<"metodo nao encontrado: ", method_name>>)
            @@ ("exc" :> Str(reply.err))
      [] reply.kind = "ok" ->
            ("result" :> reply.payload)
      [] OTHER ->
            ("error" :> Str(reply.err))

safe_call(method_name, reply) ==
    CASE reply.kind = "notfound" ->
            ("error" :> <<"metodo nao encontrado: ", method_name>>)
            @@ ("exc" :> Str(reply.err))
      [] reply.kind = "ok" ->
            ("result" :> reply.payload)
      [] OTHER ->
            ("error" :> Str(reply.err)) @@ ("traceback" :> FormatExc(reply.err))

\* the remote invocation safe_call makes, if getattr found the method
LogCall(stage, svc_name, method_name, args, reply) ==
    IF reply.kind = "notfound" THEN calls
    ELSE Append(calls, [stage |-> stage, svc |-> svc_name, method |-> method_name,
                        args |-> args, reply |-> reply])

-----------------------------------------------------------------------------
(* Token derivation *)

\* lines 141-150 without the normalisation of a single profile (lines
\* 148-149)
ProfilesOfListOnly(out) ==
    IF "result" \notin DOMAIN out THEN [list |-> TRUE, items |-> <<>>]
    ELSE LET res == out["result"]
         IN CASE res.shape \in {"list", "wrapList"} ->
                    [list |-> TRUE, items |-> res.items]
              [] OTHER -> [list |-> FALSE, items |-> <<>>]

\* lines 141-150: the profiles of a GetProfiles outcome, coerced to a list;
\* list is FALSE when the value is neither a dict nor a list
ProfilesOf(out) ==
    IF "result" \notin DOMAIN out THEN [list |-> TRUE, items |-> <<>>]
    ELSE LET res == out["result"]
         IN CASE res.shape \in {"list", "wrapList"} ->
                    [list |-> TRUE, items |-> res.items]
              [] res.shape \in {"single", "wrapSingle"} ->
                    [list |-> TRUE, items |-> <<res.items[1]>>]
              [] OTHER -> [list |-> FALSE, items |-> <<>>]

\* lines 152-160: the truthy tokens of the profiles, in order
TokensOf(profiles) ==
    LET tok(p) == p.token
    IN SelectSeq([i \in 1..Len(profiles) |-> tok(profiles[i])],
                 LAMBDA t : t # NoTok)

\* lines 151-161: context["profiles"] after GetProfiles returned out
ProfilesContext(ctx, out) ==
    IF ~ProfilesOf(out).list THEN ctx
    ELSE [ctx EXCEPT !.profiles = TokensOf(ProfilesOf(out).items)]

\* lines 176-178: the profile list the imaging step walks; a dict without
\* "Profile" gives None, and iterating it raises inside the try
ImagingProfileList(profiles_data) ==
    CASE profiles_data.shape \in {"list", "wrapList"} -> profiles_data.items
      [] profiles_data.shape = "wrapSingle" -> <<profiles_data.items[1]>>
      [] OTHER -> <<>>

\* bool(profiles_data)
Truthy(profiles_data) ==
    ~(profiles_data.shape \in {"list", "other"} /\ profiles_data.items = <<>>)

\* the key under which lines 171-172 look for the GetProfiles outcome
MediaProfilesKey == "media_GetProfiles"

\* lines 166-193: the video-source tokens for GetImagingSettings
VideoSourceTokensFor(ctx, services) ==
    IF ctx.video_source_tokens # <<>> THEN ctx.video_source_tokens
    ELSE LET med == DictGet(services, MediaProfilesKey, EmptyDict)
         IN IF med = EmptyDict \/ "result" \notin DOMAIN med THEN <<>>
            ELSE IF ~Truthy(med["result"]) THEN <<>>
            ELSE LET p_list == ImagingProfileList(med["result"])
                 IN SelectSeq([i \in 1..Len(p_list) |-> p_list[i].vs],
                              LAMBDA t : t # NoTok)

-----------------------------------------------------------------------------
(* main() of onvif_info.py *)

InitInfo ==
    /\ pc = "connect"
    /\ summary = [target |-> "192.168.1.68:8899", services |-> EmptyDict,
                  errors |-> <<>>]
    /\ context = [profiles |-> <<>>, video_source_tokens |-> <<>>]
    /\ svcIdx = 1
    /\ mIdx = 1
    /\ svc_result = EmptyDict
    /\ tIdx = 1
    /\ stream_map = EmptyDict
    /\ file = NoFile
    /\ writes = <<>>
    /\ exitCode = -1
    /\ sessions = <<>>
    /\ calls = <<>>
    /\ faults = 0

StageError(stage, e) ==
    [stage |-> stage, error |-> Str(e), traceback |-> FormatExc(e)]

\* lines 92-95 without the append of line 93
ConnectFailedSilent(sm, e) == sm

\* lines 92-95: what a failed ONVIFCamera() leaves in the report
ConnectFailed(sm, e) ==
    [sm EXCEPT !.errors = Append(@, StageError("connect", e))]

\* lines 86-95
Connect ==
    /\ pc = "connect"
    /\ \/ /\ pc' = "get_services"
          /\ UNCHANGED <<summary, faults>>
       \/ \E e \in Errors :
            /\ faults < MaxFaults
            /\ faults' = faults + 1
            /\ summary' = ConnectFailed(summary, e)
            /\ pc' = "save_and_exit"
    /\ UNCHANGED <<discVars, parseVars>>
    /\ UNCHANGED <<context, svcIdx, mIdx, svc_result, tIdx, stream_map, file,
                   writes, exitCode, sessions, calls>>

\* save_and_exit returning instead of sys.exit(1): main() goes on
save_and_exit_returns ==
    /\ pc = "save_and_exit"
    /\ writes' = Append(writes, summary)
    /\ \/ file' = summary
       \/ file' = file
    /\ pc' = "get_services"
    /\ UNCHANGED <<faults, exitCode>>
    /\ UNCHANGED <<discVars, parseVars>>
    /\ UNCHANGED <<summary, context, svcIdx, mIdx, svc_result, tIdx,
                   stream_map, sessions, calls>>

\* lines 251-258: save_and_exit(summary)
save_and_exit ==
    /\ pc = "save_and_exit"
    /\ writes' = Append(writes, summary)
    /\ \/ file' = summary
       \/ file' = file
    /\ exitCode' = 1
    /\ UNCHANGED faults
    /\ pc' = "exited"
    /\ UNCHANGED <<discVars, parseVars>>
    /\ UNCHANGED <<summary, context, svcIdx, mIdx, svc_result, tIdx,
                   stream_map, sessions, calls>>

\* lines 98-103; safe_call raises nothing, so the except branch is dead
GetServicesStep ==
    /\ pc = "get_services"
    /\ \E reply \in Replies("GetServices") :
         /\ Allowed(reply)
         /\ faults' = Charge(reply)
         /\ calls' = LogCall("get_services", "device", "GetServices", "IncludeCapability=True", reply)
         /\ summary' = [summary EXCEPT !.services =
                DictSet(@, "device_GetServices", safe_call("GetServices", reply))]
    /\ pc' = "service"
    /\ UNCHANGED <<discVars, parseVars>>
    /\ UNCHANGED <<context, svcIdx, mIdx, svc_result, tIdx, stream_map, file,
                   writes, exitCode, sessions>>

\* lines 130-131: the entry of a service whose session could not be created
SessionFailed(svc_name, e) ==
    ("error" :> <<"falha ao criar servico ", svc_name, ": ", e>>)
    @@ ("traceback" :> FormatExc(e))

\* summary["services"][svc_name] = res
StoreService(sm, svc_name, res) ==
    [sm EXCEPT !.services = DictSet(@, svc_name, res)]

\* where the for loop of line 120 goes after the current service
NextPc == IF svcIdx < Len(ServiceOrder) THEN "service" ELSE "stream"
NextIdx == IF svcIdx < Len(ServiceOrder) THEN svcIdx + 1 ELSE svcIdx

\* `break` where line 133 has `continue`
SessionFailureBreak == "stream"

\* line 133: `continue` after a failed session creation
SessionFailurePc == NextPc

SessionLog(svc_name, pass, ok) == [svc |-> svc_name, pass |-> pass, ok |-> ok]

\* lines 120-133: the head of the loop body for one service
ServiceBegin ==
    /\ pc = "service"
    /\ LET svc_name == ServiceOrder[svcIdx]
       IN IF svc_name \notin service_creators
          THEN /\ summary' = StoreService(summary, svc_name,
                      ("note" :> <<"servico nao implementado no script">>))
               /\ svc_result' = ("note" :> <<"servico nao implementado no script">>)
               /\ pc' = NextPc
               /\ svcIdx' = NextIdx
               /\ UNCHANGED <<mIdx, sessions, faults>>
          ELSE \/ /\ sessions' = IF CreatorMayRaise(svc_name)
                                 THEN Append(sessions, SessionLog(svc_name, "catalog", TRUE))
                                 ELSE sessions
                  /\ svc_result' = EmptyDict
                  /\ IF SERVICE_METHODS[svc_name] = <<>>
                     THEN /\ summary' = StoreService(summary, svc_name, EmptyDict)
                          /\ pc' = NextPc
                          /\ svcIdx' = NextIdx
                          /\ mIdx' = mIdx
                     ELSE /\ pc' = "call"
                          /\ mIdx' = 1
                          /\ UNCHANGED <<summary, svcIdx>>
                  /\ UNCHANGED faults
               \/ \E e \in Errors :
                    /\ CreatorMayRaise(svc_name)
                    /\ faults < MaxFaults
                    /\ faults' = faults + 1
                    /\ sessions' = Append(sessions, SessionLog(svc_name, "catalog", FALSE))
                    /\ svc_result' = SessionFailed(svc_name, e)
                    /\ summary' = StoreService(summary, svc_name, SessionFailed(svc_name, e))
                    /\ pc' = SessionFailurePc
                    /\ svcIdx' = NextIdx
                    /\ UNCHANGED mIdx
    /\ UNCHANGED <<discVars, parseVars>>
    /\ UNCHANGED <<context, tIdx, stream_map, file, writes, exitCode, calls>>

\* Advance with the outcome of the method not kept in the service dict
AdvanceDropOutcome(sm, res) ==
    LET svc_name == ServiceOrder[svcIdx]
    IN /\ svc_result' = svc_result
       /\ IF mIdx = Len(SERVICE_METHODS[svc_name])
          THEN /\ summary' = StoreService(sm, svc_name, svc_result)
               /\ pc' = NextPc
               /\ svcIdx' = NextIdx
               /\ mIdx' = 1
          ELSE /\ summary' = sm
               /\ pc' = "call"
               /\ mIdx' = mIdx + 1
               /\ svcIdx' = svcIdx

\* the end of one iteration of the loop of line 135, and line 211 after the
\* last method; sm is the report and res the service dict after the method
Advance(sm, res) ==
    LET svc_name == ServiceOrder[svcIdx]
    IN /\ svc_result' = res
       /\ IF mIdx = Len(SERVICE_METHODS[svc_name])
          THEN /\ summary' = StoreService(sm, svc_name, res)
               /\ pc' = NextPc
               /\ svcIdx' = NextIdx
               /\ mIdx' = 1
          ELSE /\ summary' = sm
               /\ pc' = "call"
               /\ mIdx' = mIdx + 1
               /\ svcIdx' = svcIdx

NumFaults(replies) == Cardinality({i \in DOMAIN replies : IsFault(replies[i])})

RECURSIVE LogCalls(_, _, _, _, _)
LogCalls(log, svc_name, method, tokens, replies) ==
    IF tokens = <<>> THEN log
    ELSE LogCalls(IF replies[1].kind = "notfound" THEN log
                  ELSE Append(log, [stage |-> "catalog", svc |-> svc_name,
                                    method |-> method,
                                    args |-> tokens[1], reply |-> replies[1]]),
                  svc_name, method, Tail(tokens), Tail(replies))

\* lines 135-209: one method of the current service
CallStep ==
    /\ pc = "call"
    /\ LET svc_name == ServiceOrder[svcIdx]
           method == SERVICE_METHODS[svc_name][mIdx].method
           args == SERVICE_METHODS[svc_name][mIdx].args
       IN IF svc_name = "media" /\ method = "GetProfiles"
          THEN \* lines 137-162
               \E reply \in Replies(method) :
                 LET out == safe_call(method, reply)
                 IN /\ Allowed(reply)
                    /\ faults' = Charge(reply)
                    /\ calls' = LogCall("catalog", svc_name, method, args, reply)
                    /\ context' = ProfilesContext(context, out)
                    /\ Advance(summary, DictSet(svc_result, method, out))
          ELSE IF svc_name = "imaging" /\ method = "GetImagingSettings"
          THEN \* lines 164-205
               LET tokens == VideoSourceTokensFor(context, summary.services)
               IN \E replies \in [1..Len(tokens) -> Replies(method)] :
                    LET res == IF tokens # <<>>
                               THEN DictSet(svc_result, method,
                                      [i \in 1..Len(tokens) |->
                                         (tokens[i] :> safe_call(method, replies[i]))])
                               ELSE DictSet(svc_result, method,
                                      ("note" :> <<"requer VideoSourceToken; nao encontrado automaticamente">>))
                    IN /\ faults + NumFaults(replies) <= MaxFaults
                       /\ faults' = faults + NumFaults(replies)
                       /\ calls' = LogCalls(calls, svc_name, method, tokens, replies)
                       /\ context' = [context EXCEPT !.video_source_tokens = tokens]
                       /\ Advance(StoreService(summary, svc_name, res), res)
          ELSE \* lines 207-209
               \E reply \in Replies(method) :
                 /\ Allowed(reply)
                 /\ faults' = Charge(reply)
                 /\ calls' = LogCall("catalog", svc_name, method, args, reply)
                 /\ context' = context
                 /\ Advance(summary, DictSet(svc_result, method, safe_call(method, reply)))
    /\ UNCHANGED <<discVars, parseVars>>
    /\ UNCHANGED <<tIdx, stream_map, file, writes, exitCode, sessions>>

\* line 223 with str(e) and the trace left blank: the error of the call is lost
StreamFailureBlank(e) == ("error" :> Str("")) @@ ("traceback" :> FormatExc(""))

\* line 220 raised e: the entry of line 223
StreamFailure(e) == ("error" :> Str(e)) @@ ("traceback" :> FormatExc(e))

\* lines 214-217 and 225-226
StreamBegin ==
    /\ pc = "stream"
    /\ IF context.profiles = <<>>
       THEN /\ pc' = "finish"
            /\ UNCHANGED <<summary, sessions, faults, stream_map, tIdx>>
       ELSE \/ /\ sessions' = Append(sessions, SessionLog("media", "stream", TRUE))
               /\ stream_map' = EmptyDict
               /\ tIdx' = 1
               /\ pc' = "stream_call"
               /\ UNCHANGED <<summary, faults>>
            \/ \E e \in Errors :
                 /\ faults < MaxFaults
                 /\ faults' = faults + 1
                 /\ sessions' = Append(sessions, SessionLog("media", "stream", FALSE))
                 /\ summary' = [summary EXCEPT !.errors =
                                   Append(@, StageError("GetStreamUri", e))]
                 /\ pc' = "finish"
                 /\ UNCHANGED <<stream_map, tIdx>>
    /\ UNCHANGED <<discVars, parseVars>>
    /\ UNCHANGED <<context, svcIdx, mIdx, svc_result, file, writes, exitCode, calls>>

\* lines 218-224: one token of the stream-address pass
StreamCall ==
    /\ pc = "stream_call"
    /\ LET token == context.profiles[tIdx]
       IN \E reply \in [kind : {"ok"}, payload : {PlainPayload}]
                        \cup [kind : {"raise"}, err : Errors] :
            /\ Allowed(reply)
            /\ faults' = Charge(reply)
            /\ calls' = Append(calls, [stage |-> "stream", svc |-> "media",
                                       method |-> "GetStreamUri",
                                       args |-> token, reply |-> reply])
            /\ stream_map' = DictSet(stream_map, token,
                                IF reply.kind = "ok" THEN reply.payload
                                ELSE StreamFailure(reply.err))
            /\ IF tIdx = Len(context.profiles)
               THEN /\ summary' = DictSet(summary, "stream_uris", stream_map')
                    /\ pc' = "finish"
                    /\ tIdx' = tIdx
               ELSE /\ tIdx' = tIdx + 1
                    /\ pc' = "stream_call"
                    /\ UNCHANGED summary
    /\ UNCHANGED <<discVars, parseVars>>
    /\ UNCHANGED <<context, svcIdx, mIdx, svc_result, file, writes, exitCode, sessions>>

\* lines 229-249: device_info_summary, the JSON file, the console summary
Finish ==
    /\ pc = "finish"
    /\ summary' = DictSet(summary, "device_info_summary",
            DictGet(DictGet(summary.services, "device", EmptyDict),
                    "GetDeviceInformation", EmptyDict))
    /\ writes' = Append(writes, summary')
    /\ \/ file' = summary'
       \/ file' = file
    /\ exitCode' = 0
    /\ UNCHANGED faults
    /\ pc' = "done"
    /\ UNCHANGED <<discVars, parseVars>>
    /\ UNCHANGED <<context, svcIdx, mIdx, svc_result, tIdx, stream_map,
                   sessions, calls>>

-----------------------------------------------------------------------------
(* onvif_discover.py: texts, XML and the response parser *)

\* seconds a blocking socket operation may take (TIMEOUT, and the default
\* of the timeout parameter)
TIMEOUT == 5

\* at most this many datagrams and receive errors in one scan
MaxDatagrams == 3

\* A text is a sequence of symbols.  KeyPrefix(f) stands for the characters
\* "onvif://www.onvif.org/" followed by the field name f.
KeyPrefix(f) == <<"onvif://www.onvif.org/", f>>
Space == " "
Whitespace == {" ", "\n", "\t"}

\* an XML element with its text, or without any (text is None)
Elem(text) == [has |-> TRUE, text |-> text]
EmptyElem == [has |-> FALSE, text |-> <<>>]

RECURSIVE LStrip(_)
LStrip(t) == IF t # <<>> /\ Head(t) \in Whitespace THEN LStrip(Tail(t)) ELSE t

RECURSIVE RStrip(_)
RStrip(t) ==
    IF t # <<>> /\ t[Len(t)] \in Whitespace
    THEN RStrip(SubSeq(t, 1, Len(t) - 1)) ELSE t

\* str.strip()
Strip(t) == RStrip(LStrip(t))

\* " ".join(texts)
RECURSIVE Join(_)
Join(texts) ==
    IF texts = <<>> THEN <<>>
    ELSE IF Len(texts) = 1 THEN texts[1]
    ELSE texts[1] \o <<Space>> \o Join(Tail(texts))

\* the longest run of symbols other than the space, from position i
RECURSIVE Run(_, _)
Run(t, i) ==
    IF i > Len(t) \/ t[i] = Space THEN <<>> ELSE <<t[i]>> \o Run(t, i + 1)

Present(v) == [present |-> TRUE, value |-> v]
Absent == [present |-> FALSE, value |-> <<>>]

\* lines 102-105: re.search(re.escape(key) + r"/([^ ]+)", scope_str)
extract_scope_field(scope_str, key) ==
    LET n == Len(key)
        starts == {i \in 1..Len(scope_str) :
                     /\ i + n + 1 <= Len(scope_str)
                     /\ SubSeq(scope_str, i, i + n - 1) = key
                     /\ scope_str[i + n] = "/"
                     /\ scope_str[i + n + 1] # Space}
    IN IF starts = {} THEN Absent
       ELSE LET i == CHOOSE j \in starts : \A k \in starts : j <= k
            IN Present(Run(scope_str, i + n + 1))

\* the decoded datagram: whether ET.fromstring accepts it, and its Scopes
\* and XAddrs elements in document order
Xml(wellformed, scopes, xaddrs) ==
    [wellformed |-> wellformed, scopes |-> scopes, xaddrs |-> xaddrs]

\* lines 88-90: the addresses appended before x.text.strip() raises
RECURSIVE XAddrsPrefix(_)
XAddrsPrefix(xaddrs) ==
    IF xaddrs = <<>> \/ ~xaddrs[1].has THEN <<>>
    ELSE <<Strip(xaddrs[1].text)>> \o XAddrsPrefix(Tail(xaddrs))

\* parse_probe_response without line 99: a failed parse leaves no error
parse_probe_response_silent(xml_data) ==
    IF ~xml_data.wellformed
    THEN ("Scopes" :> <<>>) @@ ("XAddrs" :> <<>>)
    ELSE ("Scopes" :> [i \in 1..Len(xml_data.scopes) |-> Strip(xml_data.scopes[i].text)])
         @@ ("XAddrs" :> XAddrsPrefix(xml_data.xaddrs))

\* lines 72-100
parse_probe_response(xml_data) ==
    LET info == ("Scopes" :> <<>>) @@ ("XAddrs" :> <<>>)
        scopes == [i \in 1..Len(xml_data.scopes) |-> Strip(xml_data.scopes[i].text)]
        all_scopes == Join(scopes)
    IN IF ~xml_data.wellformed
       THEN ("error" :> <<"ParseError">>) @@ info
       ELSE IF \E i \in 1..Len(xml_data.xaddrs) : ~xml_data.xaddrs[i].has
       THEN ("error" :> <<"'NoneType' object has no attribute 'strip'">>)
            @@ ("Scopes" :> scopes)
            @@ ("XAddrs" :> XAddrsPrefix(xml_data.xaddrs))
       ELSE ("Scopes" :> scopes)
            @@ ("XAddrs" :> XAddrsPrefix(xml_data.xaddrs))
            @@ ("Manufacturer" :> extract_scope_field(all_scopes, KeyPrefix("name")))
            @@ ("Model" :> extract_scope_field(all_scopes, KeyPrefix("model")))
            @@ ("Hardware" :> extract_scope_field(all_scopes, KeyPrefix("hardware")))
            @@ ("Location" :> extract_scope_field(all_scopes, KeyPrefix("location")))

-----------------------------------------------------------------------------
(* discover_onvif_devices() *)

Addrs == {"10.0.0.7", "10.0.0.9"}

Malformed == Xml(FALSE, <<>>, <<>>)

\* the datagrams a scan may receive
Datagrams ==
    { Malformed,
      Xml(TRUE, <<>>, <<>>),
      Xml(TRUE,
          <<Elem(<<" ">> \o KeyPrefix("name") \o <<"/", "Acme", " ">>
                 \o KeyPrefix("model") \o <<"/", "ABC123", "\n">>)>>,
          <<Elem(<<"http://10.0.0.7/onvif/device_service">>)>>),
      Xml(TRUE, <<Elem(KeyPrefix("hardware") \o <<"/", "H1">>)>>, <<EmptyElem>>) }

\* the seconds recvfrom blocks before a datagram or an error ends it: less
\* than the socket timeout
Delays == {0, TIMEOUT - 1}

\* lines 21-36: the probe, built once when the module is loaded; its
\* MessageID is the uuid4 drawn at that moment
PROBE_MESSAGE ==
    [MessageID |-> "uuid:drawn-at-import",
     To |-> "urn:schemas-xmlsoap-org:ws:2005:04:discovery",
     Action |-> "http://schemas.xmlsoap.org/ws/2005/04/discovery/Probe",
     Types |-> "dn:NetworkVideoTransmitter"]

\* print_results has not been called
NotReported == [called |-> FALSE, devices |-> <<>>]
Reported(devices) == [called |-> TRUE, devices |-> devices]

\* at most this many calls of discover_onvif_devices in one process
MaxInvocations == 2

InitDisc ==
    /\ dpc = "start"
    /\ sock = "none"
    /\ results = <<>>
    /\ received = <<>>
    /\ events = 0
    /\ now = 0
    /\ loopStart = 0
    /\ sent = <<>>
    /\ invocations = 1
    /\ reported = NotReported

\* lines 40-49: the socket, its timeout and options
OpenSocket ==
    /\ dpc = "start"
    /\ sock' = "open"
    /\ results' = <<>>
    /\ dpc' = "send"
    /\ UNCHANGED <<received, events, now, loopStart>>
    /\ UNCHANGED <<infoVars, parseVars, sent, invocations, reported>>

\* line 52: sendto returns, or raises out of the function
SendProbe ==
    /\ dpc = "send"
    /\ \/ /\ dpc' = "recv"
          /\ loopStart' = now
          /\ sent' = Append(sent, PROBE_MESSAGE.MessageID)
       \/ /\ dpc' = "raised"
          /\ UNCHANGED <<loopStart, sent>>
    /\ UNCHANGED <<sock, results, received, events, now>>
    /\ UNCHANGED <<infoVars, parseVars, invocations, reported>>

\* lines 59-61: the record of one datagram
Record(data, addr) == ("from" :> addr) @@ parse_probe_response(data)

\* results.insert(0, device_info) where line 62 appends
AccumulateFront(rs, device_info) == <<device_info>> \o rs

\* line 62: results.append(device_info)
Accumulate(rs, device_info) == Append(rs, device_info)

\* lines 56-62: recvfrom returns a datagram before the socket timeout
Receive ==
    /\ dpc = "recv"
    /\ events < MaxDatagrams
    /\ \E data \in Datagrams, addr \in Addrs, d \in Delays :
         /\ now' = now + d
         /\ received' = Append(received, [data |-> data, addr |-> addr])
         /\ results' = Accumulate(results, Record(data, addr))
    /\ events' = events + 1
    /\ UNCHANGED <<dpc, sock, loopStart>>
    /\ UNCHANGED <<infoVars, parseVars, sent, invocations, reported>>

\* lines 65-67: recvfrom raises something else than socket.timeout
ReceiveError ==
    /\ dpc = "recv"
    /\ events < MaxDatagrams
    /\ \E d \in Delays : now' = now + d
    /\ events' = events + 1
    /\ UNCHANGED <<dpc, sock, results, received, loopStart>>
    /\ UNCHANGED <<infoVars, parseVars, sent, invocations, reported>>

\* lines 63-64 and 69-70: nothing arrived for the socket timeout
ReceiveTimeout ==
    /\ dpc = "recv"
    /\ now' = now + TIMEOUT
    /\ sock' = "closed"
    /\ dpc' = "returned"
    /\ UNCHANGED <<results, received, events, loopStart>>
    /\ UNCHANGED <<infoVars, parseVars, sent, invocations, reported>>

\* line 38: the process calls discover_onvif_devices once more; the probe
\* and the datagrams still to come are those of the process
CallAgain ==
    /\ dpc \in {"returned", "raised"}
    /\ invocations < MaxInvocations
    /\ invocations' = invocations + 1
    /\ dpc' = "start"
    /\ sock' = "none"
    /\ results' = <<>>
    /\ received' = <<>>
    /\ UNCHANGED <<events, now, loopStart, sent, reported>>
    /\ UNCHANGED <<infoVars, parseVars>>

\* lines 130-132: main hands the returned devices to print_results
PrintResults ==
    /\ dpc = "returned"
    /\ reported' = Reported(results)
    /\ dpc' = "printed"
    /\ UNCHANGED <<sock, results, received, events, now, loopStart, sent,
                   invocations>>
    /\ UNCHANGED <<infoVars, parseVars>>

\* lines 134-139: KeyboardInterrupt anywhere in main is caught at the top
\* level, a message is printed and the process exits with status 0
InterruptDiscover ==
    /\ dpc \in {"start", "send", "recv", "returned"}
    /\ dpc' = "interrupted"
    /\ UNCHANGED <<sock, results, received, events, now, loopStart, sent,
                   invocations, reported>>
    /\ UNCHANGED <<infoVars, parseVars>>

\* onvif_info.py lines 260-261: main() is called without a handler, and
\* every except clause of the file names Exception: KeyboardInterrupt ends
\* the process where it arrives
InterruptInfo ==
    /\ pc \notin {"done", "exited", "interrupted"}
    /\ pc' = "interrupted"
    /\ exitCode' = 130
    /\ UNCHANGED <<summary, context, svcIdx, mIdx, svc_result, tIdx,
                   stream_map, file, writes, sessions, calls, faults>>
    /\ UNCHANGED <<discVars, parseVars>>

-----------------------------------------------------------------------------
(* The response parser applied to one decoded datagram *)

\* at most this many Scopes elements, and XAddrs elements, in a datagram
MaxElems == 2

SeqsUpTo(S, n) == UNION {[1..k -> S] : k \in 0..n}

\* texts of Scopes elements: one scope, scopes separated by a space, by a
\* newline, by a tab, a scope within whitespace, a scope without any of the
\* known fields, a field prefix without a value
ScopeTexts ==
    { KeyPrefix("model") \o <<"/", "ABC123">>,
      KeyPrefix("name") \o <<"/", "Acme", " ">> \o KeyPrefix("model") \o <<"/", "ABC123">>,
      KeyPrefix("model") \o <<"/", "ABC123", "\n">> \o KeyPrefix("name") \o <<"/", "Acme">>,
      KeyPrefix("location") \o <<"/", "lab", "\t">> \o KeyPrefix("hardware") \o <<"/", "H1">>,
      <<" ">> \o KeyPrefix("hardware") \o <<"/", "H1", "\n">>,
      KeyPrefix("type") \o <<"/", "video_encoder">>,
      KeyPrefix("model") \o <<"/">> }

XAddrTexts ==
    { <<"http://10.0.0.7/onvif/device_service">>,
      <<" ", "http://10.0.0.9:8899/onvif/device_service", "\n">> }

ScopeElems == {Elem(t) : t \in ScopeTexts} \cup {EmptyElem}
XAddrElems == {Elem(t) : t \in XAddrTexts} \cup {EmptyElem}

FieldKeys == {KeyPrefix(f) : f \in {"name", "model", "hardware", "location"}}

\* lines 84-86 and 93: the concatenated scope text of a datagram
AllScopes(xml_data) ==
    Join([i \in 1..Len(xml_data.scopes) |-> Strip(xml_data.scopes[i].text)])

InitParseIdle ==
    /\ ppc = "idle"
    /\ pin = Malformed
    /\ pout = EmptyDict

\* lines 72-100: one call of parse_probe_response
ParseResponse ==
    /\ ppc = "start"
    /\ pout' = parse_probe_response(pin)
    /\ ppc' = "parsed"
    /\ UNCHANGED <<pin, infoVars, discVars>>

\* lines 102-105: one call of extract_scope_field on the scope text
ExtractField ==
    /\ ppc = "start"
    /\ \E key \in FieldKeys :
         pout' = ("text" :> AllScopes(pin)) @@ ("key" :> key)
                 @@ ("value" :> extract_scope_field(AllScopes(pin), key))
    /\ ppc' = "extracted"
    /\ UNCHANGED <<pin, infoVars, discVars>>

-----------------------------------------------------------------------------
(* Specifications *)

Init == InitInfo /\ InitDisc /\ InitParseIdle

\* the parser is given any decoded datagram; in a malformed one the
\* elements are what the text shows of them
InitParse ==
    /\ InitInfo
    /\ InitDisc
    /\ ppc = "start"
    /\ \E w \in BOOLEAN, sc \in SeqsUpTo(ScopeElems, MaxElems),
          xa \in SeqsUpTo(XAddrElems, MaxElems) :
          pin = Xml(w, sc, xa)
    /\ pout = EmptyDict

NextParse ==
    \/ ParseResponse
    \/ ExtractField

\* parse_probe_response and extract_scope_field on every input
SpecParse == InitParse /\ [][NextParse]_vars

Next ==
    \/ Connect
    \/ save_and_exit
    \/ GetServicesStep
    \/ ServiceBegin
    \/ CallStep
    \/ StreamBegin
    \/ StreamCall
    \/ Finish

\* one run of onvif_info.py
Spec == Init /\ [][Next]_vars

NextDiscover ==
    \/ OpenSocket
    \/ SendProbe
    \/ Receive
    \/ ReceiveError
    \/ ReceiveTimeout

\* one scan of onvif_discover.py
SpecDiscover == Init /\ [][NextDiscover]_vars

NextRepeat ==
    \/ NextDiscover
    \/ CallAgain

\* discover_onvif_devices called more than once by one process
SpecRepeat == Init /\ [][NextRepeat]_vars

\* one of the two programs is run, and may be interrupted
NextInterrupt ==
    \/ pc = "connect" /\ NextDiscover
    \/ pc = "connect" /\ PrintResults
    \/ pc = "connect" /\ InterruptDiscover
    \/ dpc = "start" /\ Next
    \/ dpc = "start" /\ InterruptInfo

SpecInterrupt == Init /\ [][NextInterrupt]_vars

-----------------------------------------------------------------------------
(* Properties of the orchestration run *)

Range(f) == {f[i] : i \in DOMAIN f}

Services == Range(ServiceOrder)
Methods(svc) == {SERVICE_METHODS[svc][i].method : i \in DOMAIN SERVICE_METHODS[svc]}

\* the catalog pass (the loop of line 120) is over
CatalogDone == pc \in {"stream", "stream_call", "finish", "done"}

\* the primary connection failed
ConnectFailure == pc \in {"save_and_exit", "exited"}

\* the catalog pass could not create the session of svc
SessionFailedFor(svc) ==
    \E i \in DOMAIN sessions :
        sessions[i].svc = svc /\ sessions[i].pass = "catalog" /\ ~sessions[i].ok

StreamSessionFailed ==
    \E i \in DOMAIN sessions : sessions[i].pass = "stream" /\ ~sessions[i].ok

IsSuccess(out) == DOMAIN out = {"result"}
IsFailure(out) == DOMAIN out = {"error", "traceback"}
IsNotFound(out) == DOMAIN out = {"error", "exc"}
IsNote(out) == DOMAIN out = {"note"}

\* the service dict in which the outcomes of svc are found
ServiceDict(svc) ==
    IF pc = "call" /\ ServiceOrder[svcIdx] = svc THEN svc_result
    ELSE DictGet(summary.services, svc, EmptyDict)

\* a remote call of the log is recorded as a Failure with its message and trace
RecordedAsFailure(c) ==
    LET d == IF c.stage = "get_services" THEN summary.services
             ELSE ServiceDict(c.svc)
        k == IF c.stage = "get_services" THEN "device_GetServices" ELSE c.method
    IN /\ k \in DOMAIN d
       /\ IsFailure(d[k])
       /\ d[k]["error"] = Str(c.reply.err)
       /\ d[k]["traceback"] = FormatExc(c.reply.err)

\* C1: after a successful connection, every call that raises is recorded as
\* a Failure carrying the message and a trace; the run never stops before
\* its end; at the end every method of every service whose session exists
\* has an outcome, and the report was handed to the persist step; the exit
\* path of save_and_exit is taken by no run that made a call.
C1_CallErrorsContained ==
    /\ \A i \in DOMAIN calls :
          (calls[i].stage # "stream" /\ calls[i].reply.kind = "raise")
              => RecordedAsFailure(calls[i])
    /\ ConnectFailure => calls = <<>>
    /\ pc \notin {"done", "exited"} => ENABLED Next
    /\ CatalogDone =>
          \A svc \in Services :
              \/ SessionFailedFor(svc)
              \/ /\ svc \in DOMAIN summary.services
                 /\ Methods(svc) \subseteq DOMAIN summary.services[svc]
    /\ pc = "done" => writes = <<summary>> /\ exitCode = 0

\* C1 witness: a finished run in which two calls raised, a later one
\* returned, and the report is on disk
C1_Witness ==
    /\ pc = "done"
    /\ file = summary
    /\ \E i, j, k \in DOMAIN calls :
          /\ i < j /\ j < k
          /\ calls[i].reply.kind = "raise" /\ calls[i].stage = "catalog"
          /\ calls[j].reply.kind = "raise" /\ calls[j].stage = "catalog"
          /\ calls[k].reply.kind = "ok" /\ calls[k].stage = "catalog"

\* C2: once the catalog pass is over, every service of the catalog has an
\* entry in the report, and the entry of a service whose session creation
\* failed is a Failure whose message names the service.
C2_SessionFailureIsolated ==
    CatalogDone =>
        \A svc \in Services :
            /\ svc \in DOMAIN summary.services
            /\ SessionFailedFor(svc) =>
                  /\ IsFailure(summary.services[svc])
                  /\ svc \in Range(summary.services[svc]["error"])
            /\ ~SessionFailedFor(svc) =>
                  Methods(svc) \subseteq DOMAIN summary.services[svc]

\* C2 witness: the ptz session failed, the services before and after it
\* have their entries
C2_Witness ==
    /\ pc = "done"
    /\ SessionFailedFor("ptz")
    /\ \A svc \in Services \ {"ptz"} : ~SessionFailedFor(svc)
    /\ "GetServiceCapabilities" \in DOMAIN summary.services["events"]
    /\ "GetProfiles" \in DOMAIN summary.services["media"]

\* the errors sequence has an entry that names the stage
ErrorsName(stage) ==
    \E j \in DOMAIN summary.errors :
        \/ summary.errors[j].stage = stage
        \/ stage \in Range(summary.errors[j].error)

\* C3 as claimed: every failed session creation of the catalog pass, every
\* failed connection and every failed stream-address pass has its
\* stage-tagged entry in the errors sequence.
C3_Original ==
    /\ ConnectFailure => ErrorsName("connect")
    /\ StreamSessionFailed => ErrorsName("GetStreamUri")
    /\ \A svc \in Services :
          (CatalogDone /\ SessionFailedFor(svc)) => ErrorsName(svc)

NumFailedStreamSessions ==
    Cardinality({i \in DOMAIN sessions :
                    sessions[i].pass = "stream" /\ ~sessions[i].ok})

\* C3 amended: the errors sequence holds exactly one "connect" entry after a
\* failed connection and one "GetStreamUri" entry after the stream-address
\* pass failed to create its media session, each with the message and a
\* trace, and nothing else: a failed session creation of the catalog pass
\* adds no entry to errors, it is recorded as the entry of that service.
C3_Amended ==
    /\ ConnectFailure =>
          summary.errors = <<StageError("connect", "timed out")>>
    /\ ~ConnectFailure =>
          /\ Len(summary.errors) = NumFailedStreamSessions
          /\ \A j \in DOMAIN summary.errors :
                summary.errors[j] = StageError("GetStreamUri", "timed out")
    /\ \A svc \in Services :
          (CatalogDone /\ SessionFailedFor(svc)) =>
              /\ ~ErrorsName(svc)
              /\ svc \in DOMAIN summary.services
              /\ IsFailure(summary.services[svc])

\* C3 witness: a finished run in which the ptz session and the media session
\* of the stream-address pass both failed
C3_Witness ==
    /\ pc = "done"
    /\ SessionFailedFor("ptz")
    /\ StreamSessionFailed
    /\ Len(summary.errors) = 1

IsOutcome(out) == IsSuccess(out) \/ IsFailure(out) \/ IsNotFound(out) \/ IsNote(out)

\* C4 as claimed: at the end of a run that connected, every (service,
\* method) of the catalog has an outcome under that service and method.
C4_Original ==
    pc = "done" =>
        \A svc \in Services : \A m \in Methods(svc) :
            /\ svc \in DOMAIN summary.services
            /\ m \in DOMAIN summary.services[svc]
            /\ IsOutcome(summary.services[svc][m])

\* C4 amended: at the end of the catalog pass the entry of a service whose
\* session was created holds exactly the methods of the catalog for that
\* service, each with one outcome (Success, Failure or note); the entry of
\* a service whose session could not be created is one service-level
\* Failure, with no entry for any of its methods.
C4_Amended ==
    CatalogDone =>
        \A svc \in Services :
            /\ svc \in DOMAIN summary.services
            /\ IF SessionFailedFor(svc)
               THEN /\ IsFailure(summary.services[svc])
                    /\ \A m \in Methods(svc) : m \notin DOMAIN summary.services[svc]
               ELSE /\ DOMAIN summary.services[svc] = Methods(svc)
                    /\ \A m \in Methods(svc) : IsOutcome(summary.services[svc][m])

\* C4 witness: a finished run with a failed imaging session, a raising call
\* of a later service and a call that returned
C4_Witness ==
    /\ pc = "done"
    /\ SessionFailedFor("imaging")
    /\ ~SessionFailedFor("ptz")
    /\ IsFailure(summary.services["ptz"]["GetNodes"])
    /\ IsSuccess(summary.services["device"]["GetUsers"])

StreamCalls == SelectSeq(calls, LAMBDA c : c.stage = "stream")

\* the stream-address pass is over
StreamDone == pc \in {"finish", "done"}

\* the entry line 221 or line 223 stores for the reply of a GetStreamUri call
EntryOf(reply) ==
    IF reply.kind = "ok" THEN reply.payload
    ELSE ("error" :> Str(reply.err)) @@ ("traceback" :> FormatExc(reply.err))

\* the last GetStreamUri call made for token t
LastStreamCall(t) ==
    LET is == {i \in DOMAIN StreamCalls : StreamCalls[i].args = t}
    IN StreamCalls[CHOOSE i \in is : \A j \in is : j <= i]

\* C5 as claimed: after the stream-address pass, every derived profile token
\* has had exactly one GetStreamUri call and has its entry in stream_uris,
\* and no call was made when there is no token.
C5_Original ==
    StreamDone =>
        /\ \A t \in Range(context.profiles) :
              /\ Cardinality({i \in DOMAIN StreamCalls : StreamCalls[i].args = t}) = 1
              /\ "stream_uris" \in DOMAIN summary
              /\ t \in DOMAIN summary["stream_uris"]
        /\ context.profiles = <<>> => StreamCalls = <<>>

\* C5 amended: when the stream-address pass creates its media session, it
\* makes one GetStreamUri call per element of the derived token sequence, in
\* order (a token that occurs twice is called twice), and stream_uris has
\* exactly one entry per distinct token, the Success or Failure of the last
\* call made for that token, whatever the other calls did; when that session
\* cannot be created, or no token was derived, no GetStreamUri call is made
\* and the report gets no stream_uris.
C5_Amended ==
    StreamDone =>
        IF context.profiles = <<>> \/ StreamSessionFailed
        THEN /\ StreamCalls = <<>>
             /\ "stream_uris" \notin DOMAIN summary
        ELSE /\ Len(StreamCalls) = Len(context.profiles)
             /\ \A i \in DOMAIN StreamCalls :
                   StreamCalls[i].args = context.profiles[i]
             /\ "stream_uris" \in DOMAIN summary
             /\ DOMAIN summary["stream_uris"] = Range(context.profiles)
             /\ \A t \in Range(context.profiles) :
                   summary["stream_uris"][t] = EntryOf(LastStreamCall(t).reply)

\* C5 witness: tokens P1 and P2, the call for P1 raised and the call for P2
\* returned
C5_Witness ==
    /\ pc = "done"
    /\ context.profiles = <<"P1", "P2">>
    /\ "stream_uris" \in DOMAIN summary
    /\ DOMAIN summary["stream_uris"] = {"P1", "P2"}
    /\ IsFailure(summary["stream_uris"]["P1"])
    /\ summary["stream_uris"]["P2"] = PlainPayload

\* the video-source tokens carried by the profiles of a GetProfiles outcome
VideoSourceTokensIn(out) ==
    LET ps == ProfilesOf(out).items
    IN {ps[i].vs : i \in DOMAIN ps} \ {NoTok}

\* C6 as claimed: when GetProfiles of this run succeeded with a profile that
\* carries a video-source token, GetImagingSettings is invoked with such a
\* token; the note is recorded only when no token can be derived.
C6_Claim ==
    (/\ pc = "done"
     /\ ~SessionFailedFor("media")
     /\ ~SessionFailedFor("imaging")
     /\ IsSuccess(summary.services["media"]["GetProfiles"])
     /\ VideoSourceTokensIn(summary.services["media"]["GetProfiles"]) # {})
    => /\ \E i \in DOMAIN calls :
             /\ calls[i].method = "GetImagingSettings"
             /\ calls[i].args \in
                   VideoSourceTokensIn(summary.services["media"]["GetProfiles"])
       /\ ~IsNote(summary.services["imaging"]["GetImagingSettings"])

\* C7: after a failed connection no session was created and no call made,
\* the report holds nothing but the connect-stage error; the run hands that
\* report to the file write (whose own failure is swallowed) and exits with
\* status 1.  A run that ends with status 0 did connect and has a report
\* with its services.
C7_ConnectFailureExits ==
    /\ ConnectFailure =>
          /\ sessions = <<>>
          /\ calls = <<>>
          /\ summary.services = EmptyDict
          /\ Len(summary.errors) = 1
          /\ summary.errors[1].stage = "connect"
    /\ pc = "exited" =>
          /\ exitCode = 1
          /\ writes = <<summary>>
          /\ file \in {summary, NoFile}
    /\ Len(summary.errors) > 0 /\ summary.errors[1].stage = "connect" =>
          ConnectFailure
    /\ exitCode = 0 =>
          /\ pc = "done"
          /\ Services \subseteq DOMAIN summary.services

\* C7 witness: the connection failed, the partial report is on disk and
\* the process has exited
C7_Witness ==
    /\ pc = "exited"
    /\ exitCode = 1
    /\ file = summary
    /\ summary.errors = <<StageError("connect", "timed out")>>

-----------------------------------------------------------------------------
(* Properties of the calls and sessions of a run *)

\* the calls of the catalog, those of lines 98-103 included
CatalogCalls == {i \in DOMAIN calls : calls[i].stage # "stream"}

\* C17 as claimed: no remote method of the catalog is invoked twice with
\* the same arguments on the same service within one run.
C17_Claim ==
    \A i, j \in CatalogCalls :
        i < j => <<calls[i].svc, calls[i].method, calls[i].args>>
                 # <<calls[j].svc, calls[j].method, calls[j].args>>

Established(svc) == {i \in DOMAIN sessions : sessions[i].svc = svc /\ sessions[i].ok}

\* C18 as claimed: no service category has more than one session
\* established within one run.
C18_Claim ==
    \A svc \in Services : Cardinality(Established(svc)) <= 1

\* the GetProfiles invocations of the run
ProfileCalls ==
    {i \in DOMAIN calls : calls[i].svc = "media" /\ calls[i].method = "GetProfiles"}

\* the tokens a reply of GetProfiles carries, entry by entry
RECURSIVE TokensIn(_)
TokensIn(items) ==
    IF items = <<>> THEN <<>>
    ELSE (IF Head(items).token = NoTok THEN <<>> ELSE <<Head(items).token>>)
         \o TokensIn(Tail(items))

\* C19: after a successful GetProfiles the context's profiles are the
\* tokens of the returned entries in response order, for a sequence of
\* profiles and for a single profile object alike, entries without a token
\* left out; without a successful GetProfiles the sequence is empty.
C19_ProfileTokens ==
    /\ (\A i \in ProfileCalls : calls[i].reply.kind # "ok") =>
            context.profiles = <<>>
    /\ \A i \in ProfileCalls :
          calls[i].reply.kind = "ok" =>
              context.profiles = TokensIn(calls[i].reply.payload.items)

\* C19 witness: GetProfiles returned a single profile object and its token
\* is the context's profile sequence
C19_Witness ==
    \E i \in ProfileCalls :
        /\ calls[i].reply.kind = "ok"
        /\ calls[i].reply.payload.shape = "single"
        /\ context.profiles = <<"P1">>

\* C20: every GetStreamUri call comes after every call of the catalog and
\* after a successful GetProfiles that returned its token, and is made only
\* once every service of the catalog has its entry; the imaging block, whose
\* GetImagingSettings step consumes the profiles, is run only after the
\* media block has been recorded.
C20_CausalOrder ==
    /\ \A i \in DOMAIN calls :
          calls[i].stage = "stream" =>
              /\ \A j \in CatalogCalls : j < i
              /\ \E j \in ProfileCalls :
                    /\ j < i
                    /\ calls[j].reply.kind = "ok"
                    /\ \E k \in DOMAIN calls[j].reply.payload.items :
                          calls[j].reply.payload.items[k].token = calls[i].args
              /\ Services \subseteq DOMAIN summary.services
              /\ pc \in {"stream_call", "finish", "done"}
    /\ (pc = "call" /\ ServiceOrder[svcIdx] = "imaging") =>
          "media" \in DOMAIN summary.services
    /\ "imaging" \in DOMAIN summary.services =>
          "media" \in DOMAIN summary.services

\* C20 witness: the imaging block was run with the profiles at hand and two
\* GetStreamUri calls followed the catalog
C20_Witness ==
    /\ pc = "done"
    /\ "GetImagingSettings" \in DOMAIN summary.services["imaging"]
    /\ Cardinality({i \in DOMAIN calls : calls[i].stage = "stream"}) = 2
    /\ calls[Len(calls)].args = "P2"

-----------------------------------------------------------------------------
(* Properties of the discovery scan *)

\* C8 as claimed: the receive loop ends no later than TIMEOUT seconds after
\* it was entered.
C8_Claim ==
    dpc \in {"recv", "returned"} => now <= loopStart + TIMEOUT

\* the parser accepts the datagram: the XML is well formed and every XAddrs
\* element has text
Parses(data) ==
    data.wellformed /\ \A i \in DOMAIN data.xaddrs : data.xaddrs[i].has

ValidRecords == {k \in DOMAIN results : "error" \notin DOMAIN results[k]}

C10_ArrivalOrder ==
    /\ Len(results) = Len(received)
    /\ \A k \in DOMAIN received :
          /\ "from" \in DOMAIN results[k]
          /\ results[k]["from"] = received[k].addr
    /\ (dpc = "returned" /\ received = <<>>) => results = <<>>
    /\ dpc = "raised" => now = loopStart

\* C10 witness: two datagrams from two addresses, returned in that order
C10_Witness ==
    /\ dpc = "returned"
    /\ Len(results) = 2
    /\ results[1]["from"] = "10.0.0.9"
    /\ results[2]["from"] = "10.0.0.7"

-----------------------------------------------------------------------------
(* Properties of the response parser *)

\* C11 as claimed: for a well-formed input with N Scopes and M XAddrs
\* elements, with or without text, the record has N scope strings and M
\* address strings, the scope strings in document order.
C11_Claim ==
    (ppc = "parsed" /\ pin.wellformed) =>
        /\ Len(pout["Scopes"]) = Len(pin.scopes)
        /\ Len(pout["XAddrs"]) = Len(pin.xaddrs)
        /\ \A i \in DOMAIN pin.scopes :
              pout["Scopes"][i] = Strip(pin.scopes[i].text)

\* C12: for a malformed input the parser returns a record with a non-empty
\* error and empty scope and address sequences; for every input it returns
\* a record holding both sequences.
C12_MalformedGivesError ==
    /\ ppc = "start" =>
          {"Scopes", "XAddrs"} \subseteq DOMAIN parse_probe_response(pin)
    /\ ppc = "parsed" =>
          /\ {"Scopes", "XAddrs"} \subseteq DOMAIN pout
          /\ ~pin.wellformed =>
                /\ "error" \in DOMAIN pout
                /\ pout["error"] # <<>>
                /\ pout["Scopes"] = <<>>
                /\ pout["XAddrs"] = <<>>

\* C12 witness: a malformed input that shows a Scopes and an XAddrs element
C12_Witness ==
    /\ ppc = "parsed"
    /\ ~pin.wellformed
    /\ Len(pin.scopes) = 1
    /\ Len(pin.xaddrs) = 1
    /\ "error" \in DOMAIN pout

\* the longest run of symbols that are not whitespace, from position i
RECURSIVE NonWhitespaceRun(_, _)
NonWhitespaceRun(t, i) ==
    IF i > Len(t) \/ t[i] \in Whitespace THEN <<>>
    ELSE <<t[i]>> \o NonWhitespaceRun(t, i + 1)

\* the value of a field as the claim defines it
FieldValue(t, key) ==
    LET n == Len(key)
        starts == {i \in 1..Len(t) :
                     /\ i + n + 1 <= Len(t)
                     /\ SubSeq(t, i, i + n - 1) = key
                     /\ t[i + n] = "/"
                     /\ t[i + n + 1] \notin Whitespace}
    IN IF starts = {} THEN Absent
       ELSE Present(NonWhitespaceRun(t,
                (CHOOSE j \in starts : \A k \in starts : j <= k) + n + 1))

\* C13 as claimed: extract_scope_field returns the run of non-whitespace
\* symbols that follows the key prefix, and the absent marker when the text
\* has no such key.
C13_Claim ==
    ppc = "extracted" => pout["value"] = FieldValue(pout["text"], pout["key"])

-----------------------------------------------------------------------------
(* Properties of a scan as a whole *)

\* C14 as claimed: however discover_onvif_devices is left once the socket
\* was opened, by its return or by an error of the send, the socket is
\* closed.
C14_Claim ==
    dpc \in {"returned", "raised"} => sock = "closed"

\* C15 as claimed: no two probes sent by one process carry the same
\* MessageID.
C15_Claim ==
    \A i, j \in DOMAIN sent : i # j => sent[i] # sent[j]

\* C16 as claimed: an interrupted orchestration run has written the report
\* gathered so far, and an interrupted scan has reported the devices
\* received so far.
C16_Claim ==
    /\ pc = "interrupted" => (writes # <<>> /\ writes[Len(writes)] = summary)
    /\ dpc = "interrupted" => (reported.called /\ reported.devices = results)

====
